---- MODULE Spec2Model ----
(***************************************************************************)
(* Model of the OTA payload extractor core (src/payload_core.py): the      *)
(* payload framer, the manifest decoder, the run controller                *)
(* (run_payload_dumper), the partition driver (dump_part) and the          *)
(* operation engine (data_for_op).                                         *)
(*                                                                         *)
(* Files are sequences of cells.  A payload cell is a record               *)
(*   [k |-> "b" | "fh" | "ft", v |-> byte value, part |-> partition]       *)
(* "b" is one plain byte; a serialized manifest field is the two cells     *)
(* "fh" (field head, carrying the field) and "ft" (field tail), so that a  *)
(* file can end in the middle of a field.  Offsets are 0-based as in the   *)
(* code; sequences are 1-based.                                            *)
(***************************************************************************)
EXTENDS Integers, Sequences, FiniteSets, TLC

\* ------------------------------------------------------------------ bounds
MaxOps == 2        \* operations per partition in the engine inputs
MaxParts == 2      \* partitions per manifest in the controller inputs
MaxExtra == 2      \* how far a declared manifest size may exceed the real one

\* ------------------------------------------------------- small arithmetic
Min(a, b) == IF a < b THEN a ELSE b
Max(a, b) == IF a > b THEN a ELSE b

\* Values at or above HugeInt are not told apart: every file of the model is
\* far shorter, and the code only compares such values or uses them as read
\* lengths.
HugeInt == 1048576

Zeros(n) == [i \in 1..n |-> 0]

RECURSIVE SeqSum(_)
SeqSum(s) == IF s = <<>> THEN 0 ELSE s[1] + SeqSum(Tail(s))

RECURSIVE Flatten(_)
Flatten(ss) == IF ss = <<>> THEN <<>> ELSE ss[1] \o Flatten(Tail(ss))

Range(s) == {s[i] : i \in 1..Len(s)}

\* ------------------------------------------------------------ byte utilities
\* struct.unpack('>I' / '>Q'): big-endian, most significant byte first.
RECURSIVE BigEndian(_, _)
BigEndian(acc, x) ==
    IF x = <<>> THEN acc
    ELSE BigEndian(Min(acc * 256 + x[1], HugeInt), Tail(x))

\* struct.unpack raises struct.error unless the buffer has the exact width.
u32ok(x) == Len(x) = 4
u32(x) == BigEndian(0, x)
u64ok(x) == Len(x) = 8

\* The same bytes read least significant byte first.
RECURSIVE LittleEndian(_)
LittleEndian(x) ==
    IF x = <<>> THEN 0 ELSE Min(x[1] + 256 * Min(LittleEndian(Tail(x)), HugeInt), HugeInt)

u64_LittleEndian(x) == LittleEndian(x)

u64(x) == BigEndian(0, x)

\* ------------------------------------------------------------------- files
\* A seekable file object: contents, cursor, and two history fields used by
\* the properties: io counts the seek and write calls made on the handle,
\* wr is the set of offsets a write call has stored a byte at.
NewFile == [data |-> <<>>, pos |-> 0, io |-> 0, wr |-> {}]

FileSeek(f, p) == [f EXCEPT !.pos = p, !.io = @ + 1]

\* write at the cursor; a gap between the old end and the cursor reads as 0.
FileWrite(f, bytes) ==
    IF bytes = <<>> THEN [f EXCEPT !.io = @ + 1]
    ELSE LET n == Len(bytes)
             newLen == Max(Len(f.data), f.pos + n)
         IN [data |-> [i \in 1..newLen |->
                          IF i > f.pos /\ i <= f.pos + n THEN bytes[i - f.pos]
                          ELSE IF i <= Len(f.data) THEN f.data[i]
                          ELSE 0],
             pos  |-> f.pos + n,
             io   |-> f.io + 1,
             wr   |-> f.wr \cup {f.pos + j - 1 : j \in 1..n}]

\* read(n) of a sequence from 0-based offset p: short at end of file.
ReadAt(s, p, n) == SubSeq(s, p + 1, Min(Len(s), p + n))

\* ------------------------------------------------------------------ digest
\* hashlib.sha256(raw_data).digest(): a deterministic digest of the bytes,
\* never empty (so a present digest is truthy); 0 stands for an absent
\* data_sha256_hash field (empty bytes).
RECURSIVE DigestFold(_, _)
DigestFold(h, x) ==
    IF x = <<>> THEN h
    ELSE DigestFold((h * 31 + x[1] + 1) % 65521, Tail(x))

sha256(x) == 1 + DigestFold(7, x)

\* ------------------------------------------------------------------ codecs
\* A compressed stream is a format tag followed by (count, byte) pairs and
\* decodes to count copies of byte for each pair.
BZ2Tag == 66
XZTag == 253
ZstdTag == 40
BrotliTag == 27

RECURSIVE RunLength(_)
RunLength(x) ==
    IF Len(x) < 2 THEN <<>>
    ELSE [i \in 1..x[1] |-> x[2]] \o RunLength(Tail(Tail(x)))

\* The streaming decompressor objects (BZ2Decompressor, LZMADecompressor,
\* decompressobj): empty or cut-off input yields the output decoded so far,
\* a stream of another format raises.
StreamOk(tag, raw) == raw = <<>> \/ raw[1] = tag
StreamDecompress(tag, raw) == IF raw = <<>> THEN <<>> ELSE RunLength(Tail(raw))

\* The one-shot decoders (bz2.decompress, brotli.decompress) also raise on an
\* incomplete stream.
OneShotOk(tag, raw) == raw # <<>> /\ raw[1] = tag /\ Len(raw) % 2 = 1

bsdf2_ok(alg, data) ==
    CASE alg = 0 -> TRUE
      [] alg = 1 -> OneShotOk(BZ2Tag, data)
      [] alg = 2 -> OneShotOk(BrotliTag, data)
      [] OTHER   -> TRUE

\* For an algorithm id other than 0, 1, 2 the function falls off its end and
\* returns None; the caller then fails on it (see bsdf2_read_patch_ok).
bsdf2_decompress(alg, data) ==
    CASE alg = 0 -> data
      [] alg = 1 -> RunLength(Tail(data))
      [] alg = 2 -> RunLength(Tail(data))
      [] OTHER   -> <<>>

\* ------------------------------------------------------------ patch reader
\* A patch is 8 magic bytes, then three length fields (each one cell standing
\* for an 8-byte decode_int64 field), then the control, diff and extra blocks.
BSDIFF40_MAGIC == <<66, 83, 68, 73, 70, 70, 52, 48>>
BSDF2_MAGIC == <<66, 83, 68, 70, 50>>

PatchAlgs(magic) ==
    IF magic = BSDIFF40_MAGIC THEN <<1, 1, 1>>
    ELSE <<magic[6], magic[7], magic[8]>>

PatchMagicOk(raw) ==
    LET magic == SubSeq(raw, 1, Min(8, Len(raw)))
    IN magic = BSDIFF40_MAGIC
       \/ (Len(magic) = 8 /\ SubSeq(magic, 1, 5) = BSDF2_MAGIC)

\* The parsed patch: (len_dst, tcontrol, bdiff, bextra).
bsdf2_read_patch(raw) ==
    LET algs == PatchAlgs(SubSeq(raw, 1, 8))
        len_control == raw[9]
        len_diff == raw[10]
        len_dst == raw[11]
        ccells == ReadAt(raw, 11, len_control)
        dcells == ReadAt(raw, 11 + Len(ccells), len_diff)
        ecells == SubSeq(raw, 12 + Len(ccells) + Len(dcells), Len(raw))
        bcontrol == bsdf2_decompress(algs[1], ccells)
    IN [len_dst  |-> len_dst,
        tcontrol |-> [i \in 1..(Len(bcontrol) \div 3) |->
                         <<bcontrol[3 * i - 2], bcontrol[3 * i - 1], bcontrol[3 * i]>>],
        bdiff    |-> bsdf2_decompress(algs[2], dcells),
        bextra   |-> bsdf2_decompress(algs[3], ecells)]

bsdf2_read_patch_ok(raw) ==
    /\ PatchMagicOk(raw)
    /\ Len(raw) >= 11
    /\ LET algs == PatchAlgs(SubSeq(raw, 1, 8))
           ccells == ReadAt(raw, 11, raw[9])
           dcells == ReadAt(raw, 11 + Len(ccells), raw[10])
           ecells == SubSeq(raw, 12 + Len(ccells) + Len(dcells), Len(raw))
       IN /\ \A i \in 1..3 : algs[i] \in {0, 1, 2}
          /\ bsdf2_ok(algs[1], ccells)
          /\ bsdf2_ok(algs[2], dcells)
          /\ bsdf2_ok(algs[3], ecells)
          /\ Len(bsdf2_decompress(algs[1], ccells)) % 3 = 0

\* bsdiff4.core.patch: for each control (x, y, z) add x diff bytes to the
\* source bytes at the old cursor, append y extra bytes, move the old cursor
\* by z.  st = [new, oldpos, di, ei, ok].
RECURSIVE PatchLoop(_, _, _, _, _, _)
PatchLoop(src, len_dst, ctl, bdiff, bextra, st) ==
    IF ctl = <<>> \/ ~st.ok THEN st
    ELSE LET x == ctl[1][1]
             y == ctl[1][2]
             z == ctl[1][3]
             newpos == Len(st.new)
         IN IF \/ x < 0 \/ y < 0
               \/ newpos + x > len_dst \/ st.di + x > Len(bdiff)
               \/ newpos + x + y > len_dst \/ st.ei + y > Len(bextra)
            THEN [st EXCEPT !.ok = FALSE]
            ELSE PatchLoop(src, len_dst, Tail(ctl), bdiff, bextra,
                   [new    |-> st.new
                                \o [j \in 1..x |->
                                      (bdiff[st.di + j]
                                       + (IF st.oldpos + j >= 1 /\ st.oldpos + j <= Len(src)
                                          THEN src[st.oldpos + j] ELSE 0)) % 256]
                                \o SubSeq(bextra, st.ei + 1, st.ei + y),
                    oldpos |-> st.oldpos + x + z,
                    di     |-> st.di + x,
                    ei     |-> st.ei + y,
                    ok     |-> TRUE])

PatchRun(src, p) ==
    PatchLoop(src, p.len_dst, p.tcontrol, p.bdiff, p.bextra,
              [new |-> <<>>, oldpos |-> 0, di |-> 0, ei |-> 0, ok |-> TRUE])

patch_ok(src, p) ==
    LET st == PatchRun(src, p)
    IN st.ok /\ Len(st.new) = p.len_dst /\ st.di = Len(p.bdiff) /\ st.ei = Len(p.bextra)

patch(src, p) == PatchRun(src, p).new

\* ---------------------------------------------------------- operation engine
\* A log line: kind names the message, s its text part, a and b its numbers.
LogLine(kind, s, a, b) == [kind |-> kind, s |-> s, a |-> a, b |-> b]

Extent(start_block, num_blocks) == [start_block |-> start_block, num_blocks |-> num_blocks]

\* The half-open byte range of an extent, as a set of 0-based offsets.
ExtentBytes(ext, block_size) ==
    {ext.start_block * block_size + j : j \in 0..(ext.num_blocks * block_size - 1)}

DstBytes(op, block_size) ==
    UNION {ExtentBytes(op.dst_extents[i], block_size) : i \in 1..Len(op.dst_extents)}

\* The old-image reader: present or None, its bytes, its cursor.
NoOldFile == [present |-> FALSE, data |-> <<>>, pos |-> 0]

\* The outcome of one step of data_for_op: the error raised ("" for none),
\* the output and old-image handles, and the lines logged.
Outcome(err, out, old, lines) == [err |-> err, out |-> out, old |-> old, lines |-> lines]

\* REPLACE family: one seek to the first destination extent, one write.
WriteAtFirstExtent(op, data, out, old, block_size, lines) ==
    IF op.dst_extents = <<>> THEN Outcome("IndexError", out, old, lines)
    ELSE Outcome("",
                 FileWrite(FileSeek(out, op.dst_extents[1].start_block * block_size), data),
                 old, lines)

\* for ext in op.src_extents: old_file.seek; old_file.read; out_file.write
RECURSIVE CopyExtents(_, _, _, _)
CopyExtents(exts, out, old, block_size) ==
    IF exts = <<>> THEN [out |-> out, old |-> old]
    ELSE LET p == exts[1].start_block * block_size
             data == ReadAt(old.data, p, exts[1].num_blocks * block_size)
         IN CopyExtents(Tail(exts), FileWrite(out, data),
                        [old EXCEPT !.pos = p + Len(data)], block_size)

\* for ext in op.src_extents: old_file.seek; old_file.read; tmp_buff.write
RECURSIVE GatherSource(_, _, _)
GatherSource(exts, old, block_size) ==
    IF exts = <<>> THEN [data |-> <<>>, old |-> old]
    ELSE LET p == exts[1].start_block * block_size
             d == ReadAt(old.data, p, exts[1].num_blocks * block_size)
             rest == GatherSource(Tail(exts), [old EXCEPT !.pos = p + Len(d)], block_size)
         IN [data |-> d \o rest.data, old |-> rest.old]

\* tmp_buff.seek(0); tmp_buff.write(patched): the patched bytes overwrite the
\* head of the buffer that still holds the gathered source bytes.
Overlay(buf, patched) ==
    [i \in 1..Max(Len(buf), Len(patched)) |->
        IF i <= Len(patched) THEN patched[i] ELSE buf[i]]

\* n += ext.num_blocks: the block cursor into tmp_buff after an extent.
Advance(n, ext) == n + ext.num_blocks

\* for ext in op.dst_extents: write the next slice of tmp_buff at the extent.
RECURSIVE Scatter(_, _, _, _, _)
Scatter(exts, n, tmp_buff, out, block_size) ==
    IF exts = <<>> THEN out
    ELSE LET data == ReadAt(tmp_buff, n * block_size, exts[1].num_blocks * block_size)
         IN Scatter(Tail(exts), Advance(n, exts[1]), tmp_buff,
                    FileWrite(FileSeek(out, exts[1].start_block * block_size), data),
                    block_size)

\* b'\x00' * (ext.num_blocks * block_size)
ZeroRun_OneBlock(ext, block_size) == Zeros(block_size)

ZeroRun(ext, block_size) == Zeros(ext.num_blocks * block_size)

\* for ext in op.dst_extents: out_file.seek; out_file.write(zeros)
RECURSIVE ZeroFill(_, _, _)
ZeroFill(exts, out, block_size) ==
    IF exts = <<>> THEN out
    ELSE ZeroFill(Tail(exts),
                  FileWrite(FileSeek(out, exts[1].start_block * block_size),
                            ZeroRun(exts[1], block_size)),
                  block_size)

StreamReplace(name, tag, op, raw_data, out, old, block_size) ==
    LET l1 == <<LogLine(name, "decompressing", Len(raw_data), 0)>>
    IN IF ~StreamOk(tag, raw_data) THEN Outcome("DecodeError", out, old, l1)
       ELSE LET data == StreamDecompress(tag, raw_data)
            IN WriteAtFirstExtent(op, data, out, old, block_size,
                   l1 \o <<LogLine(name, "decompressed size", Len(data), 0)>>)

\* Type 5: the old-image reader is required before anything else is done.
SourceCopy_SeekFirst(op, out, old, block_size) ==
    IF op.dst_extents = <<>> THEN Outcome("IndexError", out, old, <<>>)
    ELSE LET out1 == FileSeek(out, op.dst_extents[1].start_block * block_size)
         IN IF ~old.present
            THEN Outcome("SOURCE_COPY requires old_file", out1, old,
                         <<LogLine("SOURCE_COPY", "requires old_file", 0, 0)>>)
            ELSE LET r == CopyExtents(op.src_extents, out1, old, block_size)
                 IN Outcome("", r.out, r.old,
                            <<LogLine("SOURCE_COPY", "copying from original image", 0, 0)>>)

SourceCopy(op, out, old, block_size) ==
    IF ~old.present
    THEN Outcome("SOURCE_COPY requires old_file", out, old,
                 <<LogLine("SOURCE_COPY", "requires old_file", 0, 0)>>)
    ELSE LET l1 == <<LogLine("SOURCE_COPY", "copying from original image", 0, 0)>>
         IN IF op.dst_extents = <<>> THEN Outcome("IndexError", out, old, l1)
            ELSE LET r == CopyExtents(op.src_extents,
                              FileSeek(out, op.dst_extents[1].start_block * block_size),
                              old, block_size)
                 IN Outcome("", r.out, r.old, l1)

\* Types 6 and 10: gather the source, apply the patch, scatter the result.
SourceBsdiff(op, raw_data, out, old, block_size) ==
    IF ~old.present
    THEN Outcome("BSDIFF requires old_file", out, old,
                 <<LogLine("BSDIFF", "requires old_file", 0, 0)>>)
    ELSE LET l1 == <<LogLine("BSDIFF", "applying patch", 0, 0)>>
         IN IF op.dst_extents = <<>> THEN Outcome("IndexError", out, old, l1)
            ELSE LET out1 == FileSeek(out, op.dst_extents[1].start_block * block_size)
                     g == GatherSource(op.src_extents, old, block_size)
                 IN IF ~bsdf2_read_patch_ok(raw_data)
                    THEN Outcome("bad patch", out1, g.old, l1)
                    ELSE LET p == bsdf2_read_patch(raw_data)
                         IN IF ~patch_ok(g.data, p)
                            THEN Outcome("corrupt patch", out1, g.old, l1)
                            ELSE Outcome("",
                                     Scatter(op.dst_extents, 0,
                                             Overlay(g.data, patch(g.data, p)),
                                             out1, block_size),
                                     g.old, l1)

\* The else branch: any other type code is refused.
Unsupported_Ignored(op, out, old) == Outcome("", out, old, <<>>)

Unsupported(op, out, old) ==
    Outcome("Unsupported operation type", out, old,
            <<LogLine("OP", "unsupported operation type", op.type, 0)>>)

\* The body of the try block: dispatch on op.type.
Dispatch(op, raw_data, out, old, block_size) ==
    CASE op.type = 0 ->
           WriteAtFirstExtent(op, raw_data, out, old, block_size,
               <<LogLine("REPLACE", "writing raw data", Len(raw_data), 0)>>)
      [] op.type = 1 -> StreamReplace("REPLACE_BZ", BZ2Tag, op, raw_data, out, old, block_size)
      [] op.type = 3 \/ op.type = 8 ->
           StreamReplace("REPLACE_XZ", XZTag, op, raw_data, out, old, block_size)
      [] op.type = 4 -> StreamReplace("ZSTD", ZstdTag, op, raw_data, out, old, block_size)
      [] op.type = 5 -> SourceCopy(op, out, old, block_size)
      [] op.type = 6 \/ op.type = 10 -> SourceBsdiff(op, raw_data, out, old, block_size)
      [] op.type = 2 ->
           Outcome("", ZeroFill(op.dst_extents, out, block_size), old,
               <<LogLine("ZERO", "writing zeros",
                         SeqSum([i \in 1..Len(op.dst_extents) |->
                                    op.dst_extents[i].num_blocks * block_size]), 0)>>)
      [] OTHER -> Unsupported(op, out, old)

\* The bytes the operation fetches: payload_file.seek(data_offset +
\* op.data_offset); payload_file.read(op.data_length).
FetchCells_FileRelative(op, payload, data_offset) ==
    ReadAt(payload, op.data_offset, op.data_length)

FetchCells(op, payload, data_offset) ==
    ReadAt(payload, data_offset + op.data_offset, op.data_length)

Fetch(op, payload, data_offset) ==
    LET cells == FetchCells(op, payload, data_offset)
    IN [i \in 1..Len(cells) |-> cells[i].v]

\* data_for_op with the digest verified after the dispatch instead of before.
data_for_op_VerifyLast(op, payload, out_file, old_file, data_offset, block_size) ==
    LET raw_data == Fetch(op, payload, data_offset)
        l0 == <<LogLine("OP", "type, data offset", op.type, op.data_offset)>>
        r == Dispatch(op, raw_data, out_file, old_file, block_size)
    IN IF r.err # ""
       THEN [r EXCEPT !.lines = l0 \o @ \o <<LogLine("EXC", r.err, op.type, op.data_offset)>>]
       ELSE IF op.data_sha256_hash # 0 /\ sha256(raw_data) # op.data_sha256_hash
       THEN Outcome("Operation data hash mismatch", r.out, r.old,
                    l0 \o r.lines \o <<LogLine("OP", "hash mismatch", 0, 0)>>)
       ELSE [r EXCEPT !.lines = l0 \o @]

\* data_for_op: fetch, log, verify the digest, dispatch; an exception of the
\* dispatch is logged with the operation's type and data_offset and re-raised.
data_for_op(op, payload, out_file, old_file, data_offset, block_size) ==
    LET raw_data == Fetch(op, payload, data_offset)
        l0 == <<LogLine("OP", "type, data offset", op.type, op.data_offset)>>
    IN IF op.data_sha256_hash # 0 /\ sha256(raw_data) # op.data_sha256_hash
       THEN Outcome("Operation data hash mismatch", out_file, old_file,
                    l0 \o <<LogLine("OP", "hash mismatch", 0, 0)>>)
       ELSE LET l1 == IF op.data_sha256_hash # 0
                      THEN l0 \o <<LogLine("OP", "SHA256 hash OK", 0, 0)>>
                      ELSE l0
                r == Dispatch(op, raw_data, out_file, old_file, block_size)
            IN IF r.err = "" THEN [r EXCEPT !.lines = l1 \o @]
               ELSE [r EXCEPT !.lines = l1 \o @ \o
                        <<LogLine("EXC", r.err, op.type, op.data_offset)>>]

\* ------------------------------------------------------- manifest and frame
NoPart == [partition_name |-> "", operations |-> <<>>]

ByteCell(v) == [k |-> "b", v |-> v, part |-> NoPart]
BlockSizeField(n) == <<[k |-> "bs", v |-> n, part |-> NoPart],
                       [k |-> "ft", v |-> 0, part |-> NoPart]>>
PartitionField(p) == <<[k |-> "part", v |-> 0, part |-> p],
                       [k |-> "ft", v |-> 0, part |-> NoPart]>>

Bytes(s) == [i \in 1..Len(s) |-> ByteCell(s[i])]
Values(cells) == [i \in 1..Len(cells) |-> cells[i].v]

\* The serialized DeltaArchiveManifest: the block_size field, then one
\* field per partition.
SerializeManifest(bs, parts) ==
    BlockSizeField(bs) \o Flatten([i \in 1..Len(parts) |-> PartitionField(parts[i])])

\* dam.ParseFromString(manifest): the blob must be a whole number of fields;
\* a blob that ends inside a field, or holds bytes that are no field, raises
\* DecodeError.  A blob cut at a field boundary decodes to the fields it
\* still holds.
ParseOk(blob) ==
    /\ Len(blob) % 2 = 0
    /\ \A i \in 1..Len(blob) :
          IF i % 2 = 1 THEN blob[i].k \in {"bs", "part"} ELSE blob[i].k = "ft"

RECURSIVE ParsedPartitions(_)
ParsedPartitions(blob) ==
    IF blob = <<>> THEN <<>>
    ELSE (IF blob[1].k = "part" THEN <<blob[1].part>> ELSE <<>>)
         \o ParsedPartitions(Tail(blob))

RECURSIVE ParsedBlockSize(_)
ParsedBlockSize(blob) ==
    IF blob = <<>> THEN 0
    ELSE IF blob[Len(blob)].k = "bs" THEN blob[Len(blob)].v
    ELSE ParsedBlockSize(SubSeq(blob, 1, Len(blob) - 1))

\* parts_to_dump: every partition when the allow-list is None or empty,
\* else the manifest partitions whose name is in the list, in manifest order.
NoImages == [none |-> TRUE, names |-> <<>>]
Images(names) == [none |-> FALSE, names |-> names]

\* images = args.images.split(",") if args.images else None: the --images text
\* is given by its comma-separated fields, the empty text being the single
\* empty field.
CliImages(fields) == IF fields = <<"">> THEN NoImages ELSE Images(fields)

\* not images: the allow-list is None or an empty list.
NoFilter_NoneOnly(imgs) == imgs.none

NoFilter(imgs) == imgs.none \/ imgs.names = <<>>

RECURSIVE FilterParts(_, _)
FilterParts(parts, names) ==
    IF parts = <<>> THEN <<>>
    ELSE (IF parts[1].partition_name \in Range(names) THEN <<parts[1]>> ELSE <<>>)
         \o FilterParts(Tail(parts), names)

\* Selection that walks the allow-list and picks the partitions per name.
RECURSIVE PickByName(_, _)
PickByName(parts, names) ==
    IF names = <<>> THEN <<>>
    ELSE FilterParts(parts, <<names[1]>>) \o PickByName(parts, Tail(names))

SelectParts_AllowListOrder(parts, imgs) ==
    IF NoFilter(imgs) THEN parts
    ELSE PickByName(parts, imgs.names)

SelectParts(parts, imgs) ==
    IF NoFilter(imgs) THEN parts
    ELSE FilterParts(parts, imgs.names)

\* percent = int((idx + 1) / total * 100), idx 0-based.
Percent_ZeroBased(idx, total) == (idx * 100) \div total

Percent(idx, total) == ((idx + 1) * 100) \div total

\* if cancel_flag and cancel_flag(): break
CancelRequested_Never(hook, flag) == FALSE

CancelRequested(hook, flag) == hook /\ flag

\* An exception raised by data_for_op is not caught by dump_part nor by
\* run_payload_dumper.
Propagates_Swallowed(e) == FALSE

Propagates(e) == e # ""

\* for op in part.operations: the next operation after the k-th.
NextOp_Skip(k) == k + 2

NextOp(k) == k + 1

\* ------------------------------------------------------------------ inputs
Names == {"boot", "system", "vendor"}
BlockSize == 2

\* The data region of the payloads: raw bytes, three compressed streams and
\* one BSDF2 patch (identity codecs; one control (2, 0, 0), diff bytes 1, 1,
\* no extra bytes, destination length 2).
RawAt == 0
RawData == <<1, 2, 3, 4>>
BzAt == 4
BzData == <<BZ2Tag, 2, 5, 2, 6>>
XzAt == 9
XzData == <<XZTag, 2, 7>>
ZstdAt == 12
ZstdData == <<ZstdTag, 2, 8>>
PatchAt == 15
PatchData == BSDF2_MAGIC \o <<0, 0, 0>> \o <<3, 2, 2>> \o <<2, 0, 0>> \o <<1, 1>>
\* A second BSDF2 patch: control (2, 2, 0), diff bytes 1, 1, extra bytes 9, 8,
\* destination length 4.
WidePatchAt == 31
WidePatchData ==
    BSDF2_MAGIC \o <<0, 0, 0>> \o <<3, 2, 4>> \o <<2, 2, 0>> \o <<1, 1>> \o <<9, 8>>

DataRegion == RawData \o BzData \o XzData \o ZstdData \o PatchData \o WidePatchData

\* The old image found under old_dir for a partition that has one.
OldImage == <<21, 22, 23, 24, 25, 26>>

Op(type, off, len, hash, src, dst) ==
    [type |-> type, data_offset |-> off, data_length |-> len,
     data_sha256_hash |-> hash, src_extents |-> src, dst_extents |-> dst]

GoodHash(off, len) == sha256(ReadAt(DataRegion, off, len))
BadHash(off, len) == GoodHash(off, len) + 1

OpReplace == Op(0, RawAt, 2, 0, <<>>, <<Extent(0, 1)>>)
OpReplaceGap == Op(0, RawAt, 4, GoodHash(RawAt, 4), <<>>, <<Extent(0, 1), Extent(2, 1)>>)
OpReplaceBadHash == Op(0, RawAt, 2, BadHash(RawAt, 2), <<>>, <<Extent(1, 1)>>)
OpReplaceNoDst == Op(0, RawAt, 2, 0, <<>>, <<>>)
OpBz == Op(1, BzAt, 5, GoodHash(BzAt, 5), <<>>, <<Extent(1, 2)>>)
OpBzGarbage == Op(1, RawAt, 4, 0, <<>>, <<Extent(0, 1)>>)
OpBzBadHash == Op(1, BzAt, 5, BadHash(BzAt, 5), <<>>, <<Extent(0, 2)>>)
OpZero == Op(2, RawAt, 2, 0, <<>>, <<Extent(0, 1), Extent(2, 1)>>)
OpZeroBadHash == Op(2, RawAt, 2, BadHash(RawAt, 2), <<>>, <<Extent(1, 1)>>)
OpXz == Op(3, XzAt, 3, 0, <<>>, <<Extent(2, 1)>>)
OpXzAlias == Op(8, XzAt, 3, GoodHash(XzAt, 3), <<>>, <<Extent(0, 1)>>)
OpZstd == Op(4, ZstdAt, 3, 0, <<>>, <<Extent(3, 1)>>)
OpZstdBadHash == Op(4, ZstdAt, 3, BadHash(ZstdAt, 3), <<>>, <<Extent(0, 1)>>)
OpCopy == Op(5, 0, 0, 0, <<Extent(1, 1)>>, <<Extent(0, 1)>>)
OpCopyGap == Op(5, 0, 0, 0, <<Extent(0, 1), Extent(2, 1)>>, <<Extent(0, 1), Extent(2, 1)>>)
OpCopyBadHash == Op(5, RawAt, 2, BadHash(RawAt, 2), <<Extent(0, 1)>>, <<Extent(0, 1)>>)
OpBsdiff == Op(6, PatchAt, 16, GoodHash(PatchAt, 16), <<Extent(0, 1)>>, <<Extent(1, 1)>>)
OpBsdiffBadHash == Op(6, PatchAt, 16, BadHash(PatchAt, 16), <<Extent(0, 1)>>, <<Extent(0, 1)>>)
OpBrotliBsdiff == Op(10, PatchAt, 16, 0, <<Extent(0, 2)>>, <<Extent(0, 1), Extent(2, 1)>>)
OpZeroWide == Op(2, RawAt, 2, GoodHash(RawAt, 2), <<>>, <<Extent(1, 2)>>)
OpBsdiffScatter ==
    Op(6, WidePatchAt, 18, GoodHash(WidePatchAt, 18), <<Extent(1, 1)>>,
       <<Extent(2, 1), Extent(0, 1)>>)
OpType7 == Op(7, RawAt, 2, 0, <<>>, <<Extent(0, 1)>>)
OpType9 == Op(9, RawAt, 2, GoodHash(RawAt, 2), <<>>, <<Extent(0, 1)>>)
OpType11 == Op(11, RawAt, 2, BadHash(RawAt, 2), <<>>, <<Extent(0, 1)>>)

OpCatalogue ==
    {OpReplace, OpReplaceGap, OpReplaceBadHash, OpReplaceNoDst, OpBz, OpBzGarbage,
     OpBzBadHash, OpZero, OpZeroBadHash, OpXz, OpXzAlias, OpZstd, OpZstdBadHash,
     OpCopy, OpCopyGap, OpCopyBadHash, OpBsdiff, OpBsdiffBadHash, OpBrotliBsdiff,
     OpType7, OpType9, OpType11, OpZeroWide, OpBsdiffScatter}

SeqsUpTo(S, n) == UNION {[1..k -> S] : k \in 0..n}

\* The operation lists of the controller inputs.
RunOpSeqs ==
    {<<OpReplace>>, <<OpReplace, OpXz, OpZero>>, <<OpReplace, OpReplaceBadHash, OpZero>>,
     <<OpCopy, OpReplace>>}

\* Manifests of up to n partitions with distinct names, in any order.
NameSeqs(n) == {s \in SeqsUpTo(Names, n) : \A i, j \in 1..Len(s) : i # j => s[i] # s[j]}

PartSeqs(n) ==
    UNION {{[i \in 1..Len(ns) |-> [partition_name |-> ns[i], operations |-> os[i]]] :
              os \in [1..Len(ns) -> RunOpSeqs]} : ns \in NameSeqs(n)}

\* Two manifests of three partitions: every partition succeeds, or the last
\* one fails at its second operation.
WideManifests ==
    {<<[partition_name |-> "boot", operations |-> <<OpReplace>>],
       [partition_name |-> "system", operations |-> <<OpReplace>>],
       [partition_name |-> "vendor", operations |-> last]>> :
        last \in {<<OpReplace>>, <<OpReplace, OpReplaceBadHash, OpZero>>}}

\* --images texts of the command line: "", "," and "system".
CliTexts == {<<"">>, <<"", "">>, <<"system">>}

AllowLists ==
    {NoImages, Images(<<>>), Images(<<"vendor", "boot">>), Images(<<"system">>),
     Images(<<"recovery">>), Images(<<"boot", "recovery">>)}
    \cup {CliImages(t) : t \in CliTexts}

\* Big-endian encoding of a small number in w bytes.
Encode(n, w) == [i \in 1..w |-> IF i = w THEN n % 256 ELSE IF i = w - 1 THEN n \div 256 ELSE 0]

MagicCrAU == <<67, 114, 65, 85>>

\* A payload file: magic, version bytes, declared manifest size, signature
\* size, manifest blob, signature blob, data region.
PayloadFile(magic, version, msize, sig, manifest) ==
    Bytes(magic \o version \o Encode(msize, 8) \o Encode(Len(sig), 4))
    \o manifest \o Bytes(sig) \o Bytes(DataRegion)

GoodPayload(parts) ==
    LET m == SerializeManifest(BlockSize, parts)
    IN PayloadFile(MagicCrAU, Encode(2, 8), Len(m), <<9>>, m)

FrameParts ==
    <<[partition_name |-> "boot", operations |-> <<OpReplace>>],
      [partition_name |-> "vendor", operations |-> <<OpZero>>]>>

Magics == {MagicCrAU, <<67, 114, 65, 86>>, <<99, 114, 65, 85>>}
Versions == {Encode(2, 8), Encode(1, 8), Encode(3, 8), <<2, 0, 0, 0, 0, 0, 0, 0>>,
             Encode(258, 8)}

\* Payload files for the framing cases: every header variant, a declared
\* manifest size up to MaxExtra above the real one, and every prefix of the
\* file (a file cut short at any byte).
FramePayloads ==
    LET m == SerializeManifest(BlockSize, FrameParts)
    IN UNION {{SubSeq(PayloadFile(mg, vs, Len(m) + e, <<9>>, m), 1, n) :
                 n \in 0..(24 + Len(m) + 1 + Len(DataRegion))} :
              mg \in Magics, vs \in Versions, e \in 0..MaxExtra}

\* ------------------------------------------------------------------- state
VARIABLES
    payload,       \* the payload file's cells
    images,        \* the allow-list argument
    diff,          \* the diff flag
    oldImgs,       \* names n for which <old_dir>/<n>.img exists
    hookLog,       \* a log_callback is installed
    hookProgress,  \* a progress_callback is installed
    hookCancel,    \* a cancel_flag callable is installed
    cancelFlag,    \* what cancel_flag() returns now
    pc,            \* position in run_payload_dumper / dump_part
    err,           \* the exception that left run_payload_dumper ("" for none)
    payPos,        \* payload_file cursor
    payOpen,       \* payload_file is open
    data_offset,   \* payload_file.tell() after the frame
    block_size,    \* dam.block_size
    decoded,       \* ParseFromString has been called
    partitions,    \* dam.partitions
    parts_to_dump, \* the selected partitions
    idx,           \* index of the current partition in parts_to_dump (0-based)
    opIdx,         \* operations of the current partition completed
    out_file,      \* the output handle of the current partition
    outOpen,       \* names whose output handle is open
    old_file,      \* the old-image handle of the current partition
    oldOpen,       \* names whose old-image handle is open
    disk,          \* contents of <out_dir>/<name>.img
    created,       \* names of the output files created, in creation order
    log,           \* lines passed to log_callback
    progress,      \* values passed to progress_callback
    polls,         \* calls of cancel_flag: partition index and result
    applied,       \* calls of data_for_op: partition and operation index, error,
                   \* raw_data
    dstCover,      \* offsets inside a destination extent of an operation
                   \* executed on the current output file
    cli,           \* the command-line process: exit status and output streams
    gui,           \* the main window: widgets' enabled flags, entries, self.worker
    threads,       \* the ExtractionWorker objects created so far
    queue          \* worker signals queued for the main thread

inputs == <<payload, images, diff, oldImgs, hookLog, hookProgress, hookCancel>>
vars == <<payload, images, diff, oldImgs, hookLog, hookProgress, hookCancel,
          cancelFlag, pc, err, payPos, payOpen, data_offset, block_size, decoded,
          partitions, parts_to_dump, idx, opIdx, out_file, outOpen, old_file,
          oldOpen, disk, created, log, progress, polls, applied, dstCover,
          cli, gui, threads, queue>>
outer == <<gui, threads, queue>>
core == <<payload, images, diff, oldImgs, hookLog, hookProgress, hookCancel,
          cancelFlag, pc, err, payPos, payOpen, data_offset, block_size, decoded,
          partitions, parts_to_dump, idx, opIdx, out_file, outOpen, old_file,
          oldOpen, disk, created, log, progress, polls, applied, dstCover>>

\* The command-line process before run_payload_dumper returns to __main__.
CliRunning == [exited |-> FALSE, status |-> 0, stdout |-> <<>>, stderr |-> <<>>]

\* The main window after __init__: every button but Cancel is enabled, the
\* timer is stopped, self.worker is None (0), the entries hold what
\* restore_settings loaded.
Window(payload_entry, output_entry) ==
    [start_btn |-> TRUE, cancel_btn |-> FALSE, browse_payload_btn |-> TRUE,
     browse_output_btn |-> TRUE, timer |-> FALSE, payload_entry |-> payload_entry,
     output_entry |-> output_entry, worker |-> 0, closed |-> FALSE]

\* No window: run_payload_dumper is called from the command line or a library.
NoWindow == gui = Window("", "") /\ threads = <<>> /\ queue = <<>>

\* The state when run_payload_dumper has opened the payload file.
Started ==
    /\ pc = "magic" /\ err = "" /\ payPos = 0 /\ payOpen = TRUE
    /\ data_offset = 0 /\ block_size = 0 /\ decoded = FALSE
    /\ partitions = <<>> /\ parts_to_dump = <<>> /\ idx = 0 /\ opIdx = 0
    /\ out_file = NewFile /\ outOpen = {} /\ old_file = NoOldFile /\ oldOpen = {}
    /\ disk = [n \in Names |-> <<>>] /\ created = <<>>
    /\ log = IF hookLog THEN <<LogLine("RUN", "opening payload file", 0, 0)>> ELSE <<>>
    /\ progress = <<>> /\ polls = <<>> /\ applied = <<>> /\ dstCover = {}

\* Engine inputs: one partition, every list of up to MaxOps catalogue
\* operations, every old-image situation.
InitEngine ==
    /\ payload \in {GoodPayload(<<[partition_name |-> "boot", operations |-> os]>>) :
                      os \in SeqsUpTo(OpCatalogue, MaxOps)}
    /\ images = NoImages
    /\ \E d \in {<<FALSE, {}>>, <<TRUE, {}>>, <<TRUE, Names>>} : diff = d[1] /\ oldImgs = d[2]
    /\ hookLog \in BOOLEAN
    /\ hookProgress = hookLog
    /\ hookCancel = FALSE /\ cancelFlag = FALSE

\* Controller inputs: manifests of up to MaxParts partitions, allow-lists,
\* cancel hooks.
InitController ==
    /\ payload \in {GoodPayload(ps) : ps \in PartSeqs(MaxParts) \cup WideManifests}
    /\ images \in AllowLists
    /\ \E d \in {<<FALSE, {}>>, <<TRUE, {"boot"}>>} : diff = d[1] /\ oldImgs = d[2]
    /\ hookLog = TRUE
    /\ hookProgress = TRUE
    /\ \E c \in {<<FALSE, FALSE>>, <<TRUE, FALSE>>, <<TRUE, TRUE>>} :
          hookCancel = c[1] /\ cancelFlag = c[2]

\* Framing inputs: header variants and files cut short.
InitFrame ==
    /\ payload \in FramePayloads
    /\ images = NoImages
    /\ diff = FALSE /\ oldImgs = {}
    /\ hookLog = TRUE /\ hookProgress = TRUE
    /\ hookCancel = FALSE /\ cancelFlag = FALSE

Init == (InitEngine \/ InitController \/ InitFrame) /\ Started /\ cli = CliRunning /\ NoWindow

\* ----------------------------------------------------------------- actions
Emit(lines) == IF hookLog THEN log \o lines ELSE log

Terminal == pc \in {"done", "raised"}

\* An exception leaves run_payload_dumper: the with block closes the payload
\* file; the handles dump_part opened are not closed.
Raise(e, lines) ==
    /\ pc' = "raised"
    /\ err' = e
    /\ payOpen' = FALSE
    /\ log' = Emit(lines)

\* magic = payload_file.read(4); if magic != b'CrAU': raise
CheckMagic ==
    /\ pc = "magic"
    /\ LET magic == Values(ReadAt(payload, payPos, 4))
       IN /\ payPos' = payPos + Len(magic)
          /\ IF magic # MagicCrAU
             THEN Raise("Invalid magic header", <<LogLine("RUN", "invalid magic header", 0, 0)>>)
             ELSE /\ pc' = "version"
                  /\ UNCHANGED <<err, payOpen, log>>
    /\ UNCHANGED <<inputs, cli, outer, cancelFlag, data_offset, block_size, decoded, partitions,
                   parts_to_dump, idx, opIdx, out_file, outOpen, old_file, oldOpen,
                   disk, created, progress, polls, applied, dstCover>>

\* file_format_version = u64(payload_file.read(8)); if != 2: raise
CheckVersion ==
    /\ pc = "version"
    /\ LET x == Values(ReadAt(payload, payPos, 8))
       IN /\ payPos' = payPos + Len(x)
          /\ IF ~u64ok(x) THEN Raise("struct.error", <<>>)
             ELSE IF u64(x) # 2
             THEN Raise("Unsupported file format version",
                        <<LogLine("RUN", "unsupported file format version", u64(x), 0)>>)
             ELSE /\ pc' = "manifest"
                  /\ UNCHANGED <<err, payOpen, log>>
    /\ UNCHANGED <<inputs, cli, outer, cancelFlag, data_offset, block_size, decoded, partitions,
                   parts_to_dump, idx, opIdx, out_file, outOpen, old_file, oldOpen,
                   disk, created, progress, polls, applied, dstCover>>

\* Read the two sizes, the manifest blob and the signature blob, take
\* data_offset = tell(), decode the manifest and select the partitions.
ReadManifest ==
    /\ pc = "manifest"
    /\ LET sz == Values(ReadAt(payload, payPos, 8))
           p1 == payPos + Len(sz)
           sg == Values(ReadAt(payload, p1, 4))
           p2 == p1 + Len(sg)
       IN IF ~u64ok(sz)
          THEN /\ payPos' = p1
               /\ Raise("struct.error", <<>>)
               /\ UNCHANGED <<data_offset, block_size, decoded, partitions, parts_to_dump>>
          ELSE IF ~u32ok(sg)
          THEN /\ payPos' = p2
               /\ Raise("struct.error", <<>>)
               /\ UNCHANGED <<data_offset, block_size, decoded, partitions, parts_to_dump>>
          ELSE LET manifest == ReadAt(payload, p2, u64(sz))
                   p3 == p2 + Len(manifest)
                   signature == ReadAt(payload, p3, u32(sg))
                   p4 == p3 + Len(signature)
               IN /\ payPos' = p4
                  /\ data_offset' = p4
                  /\ decoded' = TRUE
                  /\ IF ~ParseOk(manifest)
                     THEN /\ Raise("DecodeError", <<>>)
                          /\ UNCHANGED <<block_size, partitions, parts_to_dump>>
                     ELSE /\ partitions' = ParsedPartitions(manifest)
                          /\ block_size' = ParsedBlockSize(manifest)
                          /\ parts_to_dump' = SelectParts(ParsedPartitions(manifest), images)
                          /\ pc' = "loop"
                          /\ UNCHANGED <<err, payOpen, log>>
    /\ UNCHANGED <<inputs, cli, outer, cancelFlag, idx, opIdx, out_file, outOpen, old_file, oldOpen,
                   disk, created, progress, polls, applied, dstCover>>

\* The head of the partition loop: leave it when parts_to_dump is exhausted,
\* else poll the cancel hook (when installed) and break or enter dump_part.
LoopHead ==
    /\ pc = "loop"
    /\ IF idx >= Len(parts_to_dump)
       THEN /\ pc' = "exit"
            /\ UNCHANGED <<polls, log>>
       ELSE /\ polls' = IF hookCancel
                        THEN Append(polls, [idx |-> idx, ret |-> cancelFlag])
                        ELSE polls
            /\ IF CancelRequested(hookCancel, cancelFlag)
               THEN /\ pc' = "exit"
                    /\ log' = Emit(<<LogLine("RUN", "extraction cancelled", 0, 0)>>)
               ELSE /\ pc' = "open"
                    /\ UNCHANGED log
    /\ UNCHANGED <<inputs, cli, outer, cancelFlag, err, payPos, payOpen, data_offset, block_size,
                   decoded, partitions, parts_to_dump, idx, opIdx, out_file, outOpen,
                   old_file, oldOpen, disk, created, progress, applied, dstCover>>

\* dump_part up to its operation loop: create (truncate) the output file and,
\* with use_diff, open the old image or log the warning.
DumpPartOpen ==
    /\ pc = "open"
    /\ LET name == parts_to_dump[idx + 1].partition_name
           found == diff /\ name \in oldImgs
       IN /\ created' = Append(created, name)
          /\ disk' = [disk EXCEPT ![name] = <<>>]
          /\ out_file' = NewFile
          /\ outOpen' = outOpen \cup {name}
          /\ old_file' = IF found
                         THEN [present |-> TRUE, data |-> OldImage, pos |-> 0]
                         ELSE NoOldFile
          /\ oldOpen' = IF found THEN oldOpen \cup {name} ELSE oldOpen
          /\ log' = Emit(<<LogLine("PART", name, 0, 0)>>
                         \o IF diff /\ ~found
                            THEN <<LogLine("WARN", name, 0, 0)>>
                            ELSE <<>>)
    /\ opIdx' = 0
    /\ dstCover' = {}
    /\ pc' = "ops"
    /\ UNCHANGED <<inputs, cli, outer, cancelFlag, err, payPos, payOpen, data_offset, block_size,
                   decoded, partitions, parts_to_dump, idx, progress, polls, applied>>

\* The position the payload cursor is left at by the fetch of an operation.
FetchEnd(op) ==
    data_offset + op.data_offset + Len(FetchCells(op, payload, data_offset))

\* One iteration of dump_part's loop: data_for_op on the next operation.
DataForOp ==
    /\ pc = "ops"
    /\ opIdx < Len(parts_to_dump[idx + 1].operations)
    /\ LET part == parts_to_dump[idx + 1]
           op == part.operations[opIdx + 1]
           r == data_for_op(op, payload, out_file, old_file, data_offset, block_size)
       IN /\ payPos' = FetchEnd(op)
          /\ out_file' = r.out
          /\ old_file' = r.old
          /\ disk' = [disk EXCEPT ![part.partition_name] = r.out.data]
          /\ applied' = Append(applied, [part |-> idx, op |-> opIdx, err |-> r.err,
                                         raw |-> Fetch(op, payload, data_offset)])
          /\ IF Propagates(r.err)
             THEN /\ Raise(r.err, r.lines)
                  /\ UNCHANGED <<opIdx, dstCover>>
             ELSE /\ opIdx' = NextOp(opIdx)
                  /\ dstCover' = dstCover \cup DstBytes(op, block_size)
                  /\ log' = Emit(r.lines \o <<LogLine("DONE", "operation completed", op.type, 0)>>)
                  /\ UNCHANGED <<pc, err, payOpen>>
    /\ UNCHANGED <<inputs, cli, outer, cancelFlag, data_offset, block_size, decoded, partitions,
                   parts_to_dump, idx, outOpen, oldOpen, created, progress, polls>>

\* After the last operation dump_part closes its handles and returns.
DumpPartClose ==
    /\ pc = "ops"
    /\ opIdx >= Len(parts_to_dump[idx + 1].operations)
    /\ LET name == parts_to_dump[idx + 1].partition_name
       IN /\ outOpen' = outOpen \ {name}
          /\ oldOpen' = oldOpen \ {name}
          /\ log' = Emit(<<LogLine("PART", "extraction done", 0, 0)>>)
    /\ pc' = "progress"
    /\ UNCHANGED <<inputs, cli, outer, cancelFlag, err, payPos, payOpen, data_offset, block_size,
                   decoded, partitions, parts_to_dump, idx, opIdx, out_file, old_file,
                   disk, created, progress, polls, applied, dstCover>>

\* if progress_callback: progress_callback(percent)
Notify_Twice(hook, values, percent) ==
    IF hook THEN values \o <<percent, percent>> ELSE values

Notify(hook, values, percent) ==
    IF hook THEN Append(values, percent) ELSE values

\* Back in the controller: report the percentage, go to the next partition.
ReportProgress ==
    /\ pc = "progress"
    /\ progress' = Notify(hookProgress, progress, Percent(idx, Len(parts_to_dump)))
    /\ idx' = idx + 1
    /\ pc' = "loop"
    /\ UNCHANGED <<inputs, cli, outer, cancelFlag, err, payPos, payOpen, data_offset, block_size,
                   decoded, partitions, parts_to_dump, opIdx, out_file, outOpen,
                   old_file, oldOpen, disk, created, log, polls, applied, dstCover>>

\* The with block ends, "All done." is logged, run_payload_dumper returns.
Finish ==
    /\ pc = "exit"
    /\ payOpen' = FALSE
    /\ log' = Emit(<<LogLine("RUN", "all done", 0, 0)>>)
    /\ pc' = "done"
    /\ UNCHANGED <<inputs, cli, outer, cancelFlag, err, payPos, data_offset, block_size, decoded,
                   partitions, parts_to_dump, idx, opIdx, out_file, outOpen, old_file,
                   oldOpen, disk, created, progress, polls, applied, dstCover>>

\* The environment changes what the cancel hook will return, at any time.
SetCancel ==
    /\ hookCancel
    /\ ~Terminal
    /\ cancelFlag' = ~cancelFlag
    /\ UNCHANGED <<inputs, cli, outer, pc, err, payPos, payOpen, data_offset, block_size, decoded,
                   partitions, parts_to_dump, idx, opIdx, out_file, outOpen, old_file,
                   oldOpen, disk, created, log, progress, polls, applied, dstCover>>

\* The exit status of the process when __main__ ends after the exception e
\* ("" for none): the handler prints and the script falls off its end.
ExitStatus(e) == 0

\* The stream that print("Error:", e) writes to.
ErrorStream == "stdout"

\* __main__ after run_payload_dumper (called with no hook) returned or raised:
\* except Exception as e: print("Error:", e); then the process ends.
MainExit ==
    /\ Terminal
    /\ ~hookLog /\ ~hookProgress /\ ~hookCancel
    /\ ~cli.exited
    /\ LET line == <<"Error:", err>>
           failed == pc = "raised"
       IN cli' = [exited |-> TRUE,
                  status |-> ExitStatus(err),
                  stdout |-> IF failed /\ ErrorStream = "stdout"
                             THEN Append(cli.stdout, line) ELSE cli.stdout,
                  stderr |-> IF failed /\ ErrorStream = "stderr"
                             THEN Append(cli.stderr, line) ELSE cli.stderr]
    /\ UNCHANGED <<inputs, outer, cancelFlag, pc, err, payPos, payOpen, data_offset,
                   block_size, decoded, partitions, parts_to_dump, idx, opIdx, out_file,
                   outOpen, old_file, oldOpen, disk, created, log, progress, polls,
                   applied, dstCover>>

Next ==
    \/ MainExit
    \/ CheckMagic
    \/ CheckVersion
    \/ ReadManifest
    \/ LoopHead
    \/ DumpPartOpen
    \/ DataForOp
    \/ DumpPartClose
    \/ ReportProgress
    \/ Finish
    \/ SetCancel

Spec == Init /\ [][Next]_vars

\* ------------------------------------------------------------- main window
\* Bounds of the window model: workers created, partitions of one extraction.
MaxWorkers == 2
MaxTotal == 2

\* What the payload entry can hold: nothing, a path that does not exist, a
\* file with another magic, a file that starts with CrAU.
PayloadTexts == {"", "missing", "bad", "good"}
OutputTexts == {"", "dir"}

\* validate_inputs: the Start button is enabled exactly when the payload entry
\* names an existing file with the CrAU magic and the output entry is not empty.
Valid(g) == g.payload_entry = "good" /\ g.output_entry # ""

validate_inputs(g) == [g EXCEPT !.start_btn = Valid(g)]

\* ExtractionWorker.__init__ and start(): the thread is at the top of run().
Worker(total) ==
    [pos |-> "checks", is_cancelled |-> FALSE, idx |-> 0, total |-> total,
     emitted |-> <<>>]

\* isRunning(): run() has not returned.
isRunning(w) == threads[w].pos # "finished"

\* run() ends after emitting the terminal signal sig, or none ("").
Ends(w, sig) ==
    /\ threads' = [threads EXCEPT ![w] =
                      [@ EXCEPT !.pos = "finished",
                                !.emitted = IF sig = "" THEN @ ELSE Append(@, sig)]]
    /\ queue' = IF sig = "" THEN queue ELSE Append(queue, [sig |-> sig, w |-> w])

\* The worker a step is about.
Step(w, pos) == w \in DOMAIN threads /\ threads[w].pos = pos

\* File > Open Payload (always available) or the payload Browse button:
\* a chosen file is put in the entry and the inputs are validated; a dismissed
\* dialog changes nothing.
browse_payload ==
    /\ ~gui.closed
    /\ \E via \in {"menu", "button"}, file_path \in PayloadTexts :
          /\ via = "button" => gui.browse_payload_btn
          /\ gui' = IF file_path # ""
                    THEN validate_inputs([gui EXCEPT !.payload_entry = file_path])
                    ELSE gui
    /\ UNCHANGED <<core, cli, threads, queue>>

\* The output Browse button.
browse_output ==
    /\ ~gui.closed
    /\ gui.browse_output_btn
    /\ \E dir_path \in OutputTexts :
          gui' = IF dir_path # ""
                 THEN validate_inputs([gui EXCEPT !.output_entry = dir_path])
                 ELSE gui
    /\ UNCHANGED <<core, cli, threads, queue>>

\* The user types in the payload entry: no handler is connected to it.
EditPayloadEntry ==
    /\ ~gui.closed
    /\ \E text \in PayloadTexts : gui' = [gui EXCEPT !.payload_entry = text]
    /\ gui' # gui
    /\ UNCHANGED <<core, cli, threads, queue>>

\* The Start button: validate, create the output directory, create and start
\* a worker, disable Start and the Browse buttons, enable Cancel, start the
\* timer.
start_extraction ==
    /\ ~gui.closed
    /\ gui.start_btn
    /\ LET g == validate_inputs(gui)
       IN IF ~Valid(gui)
          THEN gui' = g /\ UNCHANGED threads
          ELSE \E makedirs_ok \in BOOLEAN, total \in 0..MaxTotal :
                 IF ~makedirs_ok
                 THEN gui' = g /\ UNCHANGED threads
                 ELSE /\ Len(threads) < MaxWorkers
                      /\ threads' = Append(threads, Worker(total))
                      /\ gui' = [g EXCEPT !.worker = Len(threads) + 1,
                                          !.start_btn = FALSE,
                                          !.cancel_btn = TRUE,
                                          !.browse_payload_btn = FALSE,
                                          !.browse_output_btn = FALSE,
                                          !.timer = TRUE]
    /\ UNCHANGED <<core, cli, queue>>

\* The Cancel button: if self.worker and self.worker.isRunning(): cancel().
cancel_extraction ==
    /\ ~gui.closed
    /\ gui.cancel_btn
    /\ threads' = IF gui.worker # 0 /\ isRunning(gui.worker)
                  THEN [threads EXCEPT ![gui.worker].is_cancelled = TRUE]
                  ELSE threads
    /\ UNCHANGED <<core, cli, gui, queue>>

\* run() up to the call of run_payload_dumper and the frame and manifest
\* reading inside it: a missing payload, an unwritable output directory or a
\* bad frame raises, and the except clause emits error_signal.
WorkerChecks ==
    \E w \in DOMAIN threads, ok \in BOOLEAN :
        /\ Step(w, "checks")
        /\ IF ok
           THEN /\ threads' = [threads EXCEPT ![w].pos = "loop"]
                /\ UNCHANGED queue
           ELSE Ends(w, "error")
        /\ UNCHANGED <<core, cli, gui>>

\* The head of run_payload_dumper's partition loop, with
\* cancel_flag = lambda: self.is_cancelled.
WorkerLoopHead ==
    \E w \in DOMAIN threads :
        /\ Step(w, "loop")
        /\ threads' = [threads EXCEPT ![w].pos =
                          IF threads[w].idx >= threads[w].total
                             \/ CancelRequested(TRUE, threads[w].is_cancelled)
                          THEN "returned" ELSE "part"]
        /\ UNCHANGED <<core, cli, gui, queue>>

\* dump_part for one partition: it completes, or an operation fails and the
\* exception reaches run()'s except clause, which emits error_signal.
WorkerDumpPart ==
    \E w \in DOMAIN threads, ok \in BOOLEAN :
        /\ Step(w, "part")
        /\ IF ok
           THEN /\ threads' = [threads EXCEPT ![w].pos = "loop", ![w].idx = @ + 1]
                /\ UNCHANGED queue
           ELSE Ends(w, "error")
        /\ UNCHANGED <<core, cli, gui>>

\* run_payload_dumper returned: if not self.is_cancelled: emit
\* completed_signal; then run() ends.
WorkerReturn ==
    \E w \in DOMAIN threads :
        /\ Step(w, "returned")
        /\ Ends(w, IF ~threads[w].is_cancelled THEN "completed" ELSE "")
        /\ UNCHANGED <<core, cli, gui>>

\* The main thread runs the slot of the next queued signal:
\* extraction_completed or extraction_error stop the timer, enable Start and
\* the Browse buttons and disable Cancel.
Deliver ==
    /\ ~gui.closed
    /\ queue # <<>>
    /\ queue' = Tail(queue)
    /\ gui' = [gui EXCEPT !.timer = FALSE,
                          !.start_btn = TRUE,
                          !.cancel_btn = FALSE,
                          !.browse_payload_btn = TRUE,
                          !.browse_output_btn = TRUE]
    /\ UNCHANGED <<core, cli, threads>>

\* closeEvent: with a running worker the user is asked; Yes cancels the
\* worker and the window closes, No keeps the window.
closeEvent ==
    /\ ~gui.closed
    /\ IF gui.worker # 0 /\ isRunning(gui.worker)
       THEN \E reply \in {"Yes", "No"} :
              IF reply = "Yes"
              THEN /\ threads' = [threads EXCEPT ![gui.worker].is_cancelled = TRUE]
                   /\ gui' = [gui EXCEPT !.closed = TRUE]
              ELSE UNCHANGED <<gui, threads>>
       ELSE /\ gui' = [gui EXCEPT !.closed = TRUE]
            /\ UNCHANGED threads
    /\ UNCHANGED <<core, cli, queue>>

\* The window after __init__; the engine's variables are not used by the
\* window model and stay at the start of a run with no hook.
InitGui ==
    /\ payload = GoodPayload(<<>>)
    /\ images = NoImages
    /\ diff = FALSE /\ oldImgs = {}
    /\ hookLog = FALSE /\ hookProgress = FALSE
    /\ hookCancel = FALSE /\ cancelFlag = FALSE
    /\ Started
    /\ cli = CliRunning
    /\ gui \in {Window(p, o) : p \in PayloadTexts, o \in OutputTexts}
    /\ threads = <<>>
    /\ queue = <<>>

NextGui ==
    \/ browse_payload
    \/ browse_output
    \/ EditPayloadEntry
    \/ start_extraction
    \/ cancel_extraction
    \/ closeEvent
    \/ WorkerChecks
    \/ WorkerLoopHead
    \/ WorkerDumpPart
    \/ WorkerReturn
    \/ Deliver

SpecGui == InitGui /\ [][NextGui]_vars

\* -------------------------------------------------------------- properties
\* The operation the next data_for_op call works on, and the step that is
\* such a call.
InOps == pc = "ops" /\ opIdx < Len(parts_to_dump[idx + 1].operations)
CurName == parts_to_dump[idx + 1].partition_name
CurOp == parts_to_dump[idx + 1].operations[opIdx + 1]
OpStep == InOps /\ applied' # applied

LastApplied == applied[Len(applied)]

\* The calls of data_for_op made for the partition with index p.
AppliedTo(p) ==
    LET OfPart(r) == r.part = p
    IN SelectSeq(applied, OfPart)

\* C1: an operation whose data_sha256_hash is present and differs from the
\* digest of the fetched bytes fails with the hash-mismatch error, whatever
\* its type, and makes no seek and no write on the output file, whose
\* contents stay as they were.
C1_HashMismatchFailsBeforeWrite ==
    [][(OpStep /\ CurOp.data_sha256_hash # 0
               /\ CurOp.data_sha256_hash # sha256(Fetch(CurOp, payload, data_offset)))
        => /\ pc' = "raised"
           /\ err' = "Operation data hash mismatch"
           /\ out_file'.io = out_file.io
           /\ out_file'.data = out_file.data
           /\ disk' = disk]_vars

\* A hash mismatch was raised by a second operation, on a file the first
\* operation had written.
C1_Witness ==
    /\ pc = "raised"
    /\ err = "Operation data hash mismatch"
    /\ Len(applied) = 2
    /\ disk["boot"] # <<>>
    /\ out_file.io = 2

\* C2: a failing operation is the last one run: its error leaves
\* run_payload_dumper, no later operation and no later partition is
\* processed, no output file is created after the failing partition's, and
\* that partition's partly written file stays in place.
C2_FailureAbortsRun ==
    \A i \in 1..Len(applied) :
        applied[i].err # ""
        => /\ i = Len(applied)
           /\ pc = "raised"
           /\ err = applied[i].err
           /\ idx = applied[i].part
           /\ Len(created) = applied[i].part + 1
           /\ created[Len(created)] = parts_to_dump[applied[i].part + 1].partition_name
           /\ disk[created[Len(created)]] = out_file.data
           /\ Len(progress) <= applied[i].part

\* The second of three operations of the first of two partitions failed,
\* after the first had written.
C2_Witness ==
    /\ pc = "raised"
    /\ Len(parts_to_dump) = 2
    /\ Len(parts_to_dump[1].operations) = 3
    /\ Len(applied) = 2
    /\ LastApplied.err # ""
    /\ created = <<parts_to_dump[1].partition_name>>
    /\ disk[created[1]] # <<>>

\* C3: the cancel hook is polled once before each partition that is reached,
\* the first included, and nowhere else; a poll that returns true ends the
\* run normally with no further partition started; a started partition is
\* left only when all its operations are applied or one of them failed,
\* whatever the flag does meanwhile.
C3_PollsInv ==
    /\ ~hookCancel => polls = <<>>
    /\ hookCancel =>
         /\ \A i \in 1..Len(polls) :
               /\ polls[i].idx = i - 1
               /\ polls[i].ret => /\ i = Len(polls)
                                  /\ pc \in {"exit", "done"}
                                  /\ err = ""
                                  /\ Len(created) = i - 1
               /\ ~polls[i].ret => Len(created) >= i \/ (i = Len(polls) /\ pc = "open")
         /\ Len(polls) \in {Len(created), Len(created) + 1}
    /\ pc = "done" =>
         \A p \in 0..(Len(created) - 1) :
             Len(AppliedTo(p)) = Len(parts_to_dump[p + 1].operations)

C3_CancelOnlyBetweenPartitions ==
    /\ []C3_PollsInv
    /\ [][/\ polls' # polls => pc = "loop"
          /\ (pc = "ops" /\ pc' # "ops")
               => \/ pc' = "raised"
                  \/ (pc' = "progress"
                      /\ opIdx = Len(parts_to_dump[idx + 1].operations))
          /\ (pc = "ops" /\ cancelFlag' # cancelFlag) => pc' = "ops"]_vars

\* The flag was false at the first poll, the second poll returned true, and
\* the run ended normally with the first partition complete.
C3_Witness ==
    /\ hookCancel
    /\ pc = "done"
    /\ err = ""
    /\ Len(polls) = 2
    /\ polls[2].ret
    /\ Len(parts_to_dump) = 2
    /\ Len(created) = 1
    /\ Len(applied) = 3

\* C4: within a partition the operations are applied in manifest order, one
\* after the other, none skipped and none applied twice: the calls of
\* data_for_op for a partition carry the indexes 0, 1, 2, ..., and a
\* partition that completed had every operation applied.
C4_OperationsInManifestOrder ==
    \A p \in 0..(Len(created) - 1) :
        LET s == AppliedTo(p)
        IN /\ \A k \in 1..Len(s) : s[k].op = k - 1
           /\ Len(s) <= Len(parts_to_dump[p + 1].operations)
           /\ (p < idx \/ pc = "progress")
                => Len(s) = Len(parts_to_dump[p + 1].operations)
           /\ (p = idx /\ pc = "ops") => Len(s) = opIdx

\* A partition of three operations completed.
C4_Witness ==
    /\ pc = "progress"
    /\ Len(parts_to_dump[idx + 1].operations) = 3
    /\ Len(AppliedTo(idx)) = 3
    /\ AppliedTo(idx)[3].op = 2

\* The position of a name in the decoded manifest (0 when absent).
ManifestPos(n) ==
    IF \E i \in 1..Len(partitions) : partitions[i].partition_name = n
    THEN CHOOSE i \in 1..Len(partitions) : partitions[i].partition_name = n
    ELSE 0

AllowListGiven == ~images.none /\ images.names # <<>>

AllowedInManifest ==
    {i \in 1..Len(partitions) :
        \E j \in 1..Len(images.names) : images.names[j] = partitions[i].partition_name}

\* C5: with a non-empty allow-list the partitions processed are the manifest
\* partitions named in the list, in manifest order whatever the order of the
\* list; a listed name that is in no manifest partition gives no output file
\* and no error.
C5_AllowListInManifestOrder ==
    AllowListGiven
    => /\ \A j \in 1..Len(created) :
             /\ ManifestPos(created[j]) \in AllowedInManifest
             /\ Cardinality({i \in AllowedInManifest : i < ManifestPos(created[j])}) = j - 1
       /\ (pc = "done" /\ (polls = <<>> \/ ~polls[Len(polls)].ret))
             => Len(created) = Cardinality(AllowedInManifest)
       /\ Len(parts_to_dump) = Cardinality(AllowedInManifest)
       /\ pc = "raised" => (applied # <<>> /\ LastApplied.err = err)

\* The allow-list names vendor before boot, the manifest has boot before
\* vendor, and boot.img was produced first.
C5_Witness ==
    /\ pc = "done"
    /\ images.names = <<"vendor", "boot">>
    /\ Len(partitions) = 2
    /\ created = <<"boot", "vendor">>

\* C6 (as claimed): a byte written outside every destination extent of the
\* operations executed so far on the output file is zero.
C6_OutsideExtentsZeroOrUntouched ==
    (err = "" /\ pc \in {"ops", "progress"})
    => \A off \in out_file.wr :
          off \notin dstCover => out_file.data[off + 1] = 0

SupportedTypes == {0, 1, 2, 3, 4, 5, 6, 8, 10}

HashWrong(op) ==
    /\ op.data_sha256_hash # 0
    /\ op.data_sha256_hash # sha256(Fetch(op, payload, data_offset))

\* C7 (as claimed): an operation of another type than 0,1,2,3,4,5,6,8,10
\* fails with the unsupported-operation error and writes nothing.
C7_UnsupportedAlwaysReported ==
    [][(OpStep /\ CurOp.type \notin SupportedTypes)
        => /\ pc' = "raised"
           /\ err' = "Unsupported operation type"
           /\ out_file'.wr = out_file.wr
           /\ disk' = disk]_vars

\* C7 (amended): such an operation always fails and writes nothing; the
\* error is the unsupported-operation error when the digest is absent or
\* matches, and the hash-mismatch error when the digest is present and wrong.
C7_UnsupportedFails ==
    [][(OpStep /\ CurOp.type \notin SupportedTypes)
        => /\ pc' = "raised"
           /\ err' = IF HashWrong(CurOp)
                     THEN "Operation data hash mismatch"
                     ELSE "Unsupported operation type"
           /\ out_file'.io = out_file.io
           /\ out_file'.data = out_file.data
           /\ disk' = disk]_vars

\* An operation of type 9 with a matching digest was refused after another
\* operation had written the file.
C7_Witness ==
    /\ pc = "raised"
    /\ err = "Unsupported operation type"
    /\ Len(applied) = 2
    /\ parts_to_dump[1].operations[2].type = 9
    /\ disk["boot"] # <<>>

NeedsSource(op) == op.type \in {5, 6, 10}

\* C8: an operation of type 5, 6 or 10 run without an old-image reader fails
\* before any seek or write on the output file; a missing old image in
\* differential mode does not fail the partition by itself: dump_part logs
\* the warning and goes on, and operations that need no source do not fail
\* for lack of one.
C8_MissingSource ==
    [][/\ (OpStep /\ NeedsSource(CurOp) /\ ~old_file.present)
            => /\ pc' = "raised"
               /\ err' # ""
               /\ out_file'.io = out_file.io
               /\ out_file'.data = out_file.data
               /\ disk' = disk
       /\ (OpStep /\ ~NeedsSource(CurOp) /\ ~HashWrong(CurOp)
                  /\ CurOp.type \in {0, 2} /\ CurOp.dst_extents # <<>>)
            => /\ pc' = "ops"
               /\ opIdx' = opIdx + 1
               /\ out_file'.io > out_file.io
       /\ (pc = "open" /\ pc' # "open")
            => /\ pc' = "ops"
               /\ err' = ""
               /\ old_file'.present = (diff /\ parts_to_dump[idx + 1].partition_name \in oldImgs)
               /\ (diff /\ hookLog /\ parts_to_dump[idx + 1].partition_name \notin oldImgs)
                     => log'[Len(log')] =
                          LogLine("WARN", parts_to_dump[idx + 1].partition_name, 0, 0)]_vars

\* In differential mode with no old image the warning was logged, a REPLACE
\* was applied and the SOURCE_BSDIFF after it failed for lack of a source.
C8_Witness ==
    /\ diff
    /\ hookLog
    /\ pc = "raised"
    /\ err = "BSDIFF requires old_file"
    /\ Len(applied) = 2
    /\ applied[1].err = ""
    /\ disk["boot"] # <<>>
    /\ \E i \in 1..Len(log) : log[i].kind = "WARN"

\* The frame as the file states it.
FrameMagic == Values(SubSeq(payload, 1, Min(4, Len(payload))))
FrameVersion == Values(SubSeq(payload, 5, Min(12, Len(payload))))
BadFrame == FrameMagic # <<67, 114, 65, 85>> \/ FrameVersion # <<0, 0, 0, 0, 0, 0, 0, 2>>

\* C9: when the first four bytes are not "CrAU" or the 8-byte big-endian
\* version is not 2, run_payload_dumper fails; the manifest is never
\* decoded, no partition is driven and no output file is created.
C9_BadFrameRejected ==
    BadFrame
    => /\ ~decoded
       /\ created = <<>>
       /\ applied = <<>>
       /\ pc \in {"magic", "version", "raised"}
       /\ pc = "raised" => err # ""

\* A complete file whose version field holds 2 in little-endian byte order
\* was rejected for its version.
C9_Witness ==
    /\ pc = "raised"
    /\ err = "Unsupported file format version"
    /\ FrameMagic = <<67, 114, 65, 85>>
    /\ FrameVersion = <<2, 0, 0, 0, 0, 0, 0, 0>>
    /\ Len(payload) > 24

\* The manifest size the header declares (bytes 12..19, big-endian; the
\* model's files keep it below 65536).
DeclaredManifestSize == payload[19].v * 256 + payload[20].v

DeclaredTooLarge ==
    /\ Len(payload) >= 24
    /\ ~BadFrame
    /\ DeclaredManifestSize > Len(payload) - 24

\* C10 (as claimed): when the declared manifest size exceeds what the file
\* holds after the 24-byte header, run_payload_dumper fails and processes
\* no partition.
C10_TruncatedManifestRejected ==
    DeclaredTooLarge
    => /\ created = <<>>
       /\ pc \notin {"exit", "done"}


\* ---------------------------------------------------------------------- C11
\* C11: when the command-line process has ended, its exit status is 0 exactly
\* when run_payload_dumper returned normally, and after a failure the error
\* message is on the standard error stream.
C11_ExitStatusReportsFailure ==
    cli.exited =>
        /\ (cli.status = 0 <=> pc = "done")
        /\ (pc = "raised" => \E i \in DOMAIN cli.stderr : cli.stderr[i] = <<"Error:", err>>)

\* ---------------------------------------------------------------------- C12
\* The partitions whose dump_part has returned, counted from the log.
PartsDone ==
    Cardinality({i \in DOMAIN log : log[i] = LogLine("PART", "extraction done", 0, 0)})

\* The calls the progress hook has received when it is called exactly once
\* after each completed partition.
OncePerCompleted == Len(progress) = PartsDone - (IF pc = "progress" THEN 1 ELSE 0)

\* round(num / den) as Python rounds: to the nearest integer, a half to the
\* even neighbour.
RoundHalfEven(num, den) ==
    LET q == num \div den
        r == num % den
    IN IF 2 * r < den THEN q
       ELSE IF 2 * r > den THEN q + 1
       ELSE IF q % 2 = 0 THEN q ELSE q + 1

\* C12 as stated: with a progress hook, one call per completed partition and
\* none for a failed or not-started one, and the j-th call (partition index
\* j - 1 of N) passes round(j / N * 100).
C12_ProgressRounded ==
    (hookProgress /\ hookLog) =>
        /\ OncePerCompleted
        /\ \A j \in DOMAIN progress :
              progress[j] = RoundHalfEven(j * 100, Len(parts_to_dump))

\* C12 amended: with a progress hook, one call per completed partition and
\* none for a failed or not-started one, and the j-th call (partition index
\* j - 1 of N) passes j / N * 100 truncated toward zero.
C12_ProgressTruncated ==
    (hookProgress /\ hookLog) =>
        /\ OncePerCompleted
        /\ \A j \in DOMAIN progress :
              /\ progress[j] * Len(parts_to_dump) <= j * 100
              /\ (progress[j] + 1) * Len(parts_to_dump) > j * 100

\* Two of three partitions completed and reported, the third one failed.
C12_Witness ==
    /\ pc = "raised" /\ hookProgress
    /\ Len(parts_to_dump) = 3
    /\ PartsDone = 2
    /\ progress = <<33, 66>>

\* ---------------------------------------------------------------------- C13
\* No call of the cancel hook has returned true.
NeverCancelled == \A i \in DOMAIN polls : ~polls[i].ret

\* C13: the values passed to the progress hook never decrease, lie in 0..100,
\* and the last one is 100 when all N >= 1 selected partitions completed
\* without cancellation.
C13_ProgressMonotone ==
    /\ \A j \in DOMAIN progress : progress[j] \in 0..100
    /\ \A j, k \in DOMAIN progress : j <= k => progress[j] <= progress[k]
    /\ (hookProgress /\ pc = "done" /\ NeverCancelled /\ Len(parts_to_dump) >= 1) =>
           /\ progress # <<>>
           /\ progress[Len(progress)] = 100

\* A run of three partitions that completed and reported 33, 66, 100.
C13_Witness ==
    /\ pc = "done" /\ NeverCancelled
    /\ Len(parts_to_dump) = 3
    /\ progress = <<33, 66, 100>>

\* ---------------------------------------------------------------------- C14
\* The operation of the last data_for_op call.
LastOp == parts_to_dump[LastApplied.part + 1].operations[LastApplied.op + 1]

\* The output length an operation leaves when it writes exactly the offsets S.
LenAfter(old_len, S) ==
    IF S = {} THEN old_len ELSE Max(old_len, 1 + CHOOSE m \in S : \A x \in S : x <= m)

Patched(op) ==
    patch(GatherSource(op.src_extents, old_file, block_size).data,
          bsdf2_read_patch(Fetch(op, payload, data_offset)))

PatchApplies(op) ==
    /\ old_file.present
    /\ ~HashWrong(op)
    /\ op.dst_extents # <<>>
    /\ bsdf2_read_patch_ok(Fetch(op, payload, data_offset))
    /\ patch_ok(GatherSource(op.src_extents, old_file, block_size).data,
                bsdf2_read_patch(Fetch(op, payload, data_offset)))

\* Blocks of the destination extents before the j-th one.
BlocksBefore(op, j) == SeqSum([i \in 1..(j - 1) |-> op.dst_extents[i].num_blocks])

DstDisjoint(op) ==
    \A i, j \in DOMAIN op.dst_extents :
        i # j => ExtentBytes(op.dst_extents[i], block_size)
                   \cap ExtentBytes(op.dst_extents[j], block_size) = {}

\* C15: a BSDIFF operation (type 6 or 10) that is executed on (disjoint)
\* destination extents writes to the j-th extent, at byte start_block_j * B,
\* exactly the bytes of the patched buffer that start at
\* B * (num_blocks of the extents before j), num_blocks_j * B of them at most.
C15_ScatterFromPatched ==
    [][(/\ OpStep
        /\ CurOp.type \in {6, 10}
        /\ PatchApplies(CurOp)
        /\ DstDisjoint(CurOp)) =>
          /\ LastApplied'.err = ""
          /\ \A j \in DOMAIN CurOp.dst_extents :
                LET e == CurOp.dst_extents[j]
                    slice == ReadAt(Patched(CurOp), block_size * BlocksBefore(CurOp, j),
                                    e.num_blocks * block_size)
                IN /\ ReadAt(out_file'.data, e.start_block * block_size, Len(slice)) = slice
                   /\ \A off \in ExtentBytes(e, block_size) :
                         off \in out_file'.wr \ out_file.wr =>
                             off < e.start_block * block_size + Len(slice)]_vars

\* ---------------------------------------------------------------------- C16
\* The log lines whose text holds an operation's type and data_offset: the
\* "[OP] Type: .., Data offset: .." line and the "Exception during operation:
\* .. [type: .., data_offset: ..]" line.
NamesOperation(line, op) ==
    /\ \/ line.kind = "EXC"
       \/ (line.kind = "OP" /\ line.s = "type, data offset")
    /\ line.a = op.type
    /\ line.b = op.data_offset

\* C16: with a log hook installed, when data_for_op fails (whatever the
\* failure), the last line logged before the error leaves data_for_op holds
\* the failing operation's type and data_offset.
C16_LastLineNamesOperation ==
    [][(OpStep /\ hookLog /\ LastApplied'.err # "") =>
          NamesOperation(log'[Len(log')], CurOp)]_vars

\* ---------------------------------------------------------------------- C17
\* C17: the handles dump_part opened (the output file and the old image) are
\* closed whenever dump_part has been left, after the last operation or on a
\* failure: a handle is open only inside dump_part, and only the current
\* partition's.
C17_HandlesClosedOnExit ==
    /\ pc # "ops" => (outOpen = {} /\ oldOpen = {})
    /\ pc = "ops" => (outOpen \cup oldOpen) \subseteq {CurName}

\* ---------------------------------------------------------------------- C18
\* The signature size the header declares (bytes 20..23, big-endian).
DeclaredSignatureSize == payload[23].v * 256 + payload[24].v

\* 24 + manifest_size + metadata_signature_size.
FrameEnd == 24 + DeclaredManifestSize + DeclaredSignatureSize

\* C18: every operation fetches exactly the payload bytes of the absolute
\* file range [D + op.data_offset, D + op.data_offset + op.data_length) with
\* D = 24 + manifest_size + metadata_signature_size, whatever the cursor
\* earlier operations and partitions left; data_offset is taken once, after
\* the frame is read, and is D when the file holds the whole frame.
C18_FetchAtAbsoluteOffset ==
    /\ []((decoded /\ Len(payload) >= FrameEnd) => data_offset = FrameEnd)
    /\ [][decoded => data_offset' = data_offset]_vars
    /\ [][OpStep =>
            LET lo == FrameEnd + CurOp.data_offset
                bytes == Values(ReadAt(payload, lo, CurOp.data_length))
            IN /\ LastApplied'.raw = bytes
               /\ (Len(payload) >= FrameEnd => payPos' = lo + Len(bytes))]_vars

\* The second operation fetched the bytes at data offset 0 after the first
\* one left the cursor behind the stream at data offset 9.
C18_Witness ==
    /\ Len(applied) = 2
    /\ applied[1].raw = XzData
    /\ applied[2].raw = <<1, 2>>
    /\ applied[2].part = applied[1].part

\* ---------------------------------------------------------------------- C19
\* C19, as a statement about the workers whose run() has ended: every worker
\* emits at most one terminal signal (completed_signal or error_signal), one
\* that has ended has emitted exactly one, cancelled or not, and once every
\* worker has ended and every signal has been handled the window has left its
\* running state (Cancel disabled, timer stopped, Start enabled).
C19_OneTerminalSignal ==
    ~gui.closed =>
        /\ \A w \in DOMAIN threads :
              /\ Len(threads[w].emitted) <= 1
              /\ ~isRunning(w) => Len(threads[w].emitted) = 1
        /\ (threads # <<>> /\ queue = <<>> /\ \A w \in DOMAIN threads : ~isRunning(w)) =>
              (~gui.cancel_btn /\ ~gui.timer)

\* ---------------------------------------------------------------------- C20
\* C20: at most one worker is running at any time, and the Start button is
\* disabled while one is running.
C20_SingleWorker ==
    ~gui.closed =>
        /\ Cardinality({w \in DOMAIN threads : isRunning(w)}) <= 1
        /\ (\E w \in DOMAIN threads : isRunning(w)) => ~gui.start_btn

\* ---------------------------------------------------------------------- C21
\* The index into the patched buffer that belongs to the output offset off
\* of the j-th destination extent (0-based).
PatchedIndex(op, j, off) ==
    block_size * BlocksBefore(op, j) + (off - op.dst_extents[j].start_block * block_size)

\* C21: a BSDIFF operation (type 6 or 10) that is executed writes only bytes
\* of the patch result: every output offset it writes lies in a destination
\* extent at a position the patched buffer has a byte for, and holds that
\* byte; it writes no more bytes than the patched buffer has, so none of the
\* gathered old-image bytes reaches the output.
C21_OnlyPatchedBytesWritten ==
    [][(/\ OpStep
        /\ CurOp.type \in {6, 10}
        /\ PatchApplies(CurOp)
        /\ DstDisjoint(CurOp)) =>
          LET written == out_file'.wr \ out_file.wr
              patched == Patched(CurOp)
          IN /\ Cardinality(written) <= Len(patched)
             /\ \A off \in written :
                   \E j \in DOMAIN CurOp.dst_extents :
                       /\ off \in ExtentBytes(CurOp.dst_extents[j], block_size)
                       /\ PatchedIndex(CurOp, j, off) < Len(patched)
                       /\ out_file'.data[off + 1] = patched[PatchedIndex(CurOp, j, off) + 1]]_vars

\* ---------------------------------------------------------------------- C22
\* The manifest was decoded and the partitions were selected.
Selected == decoded /\ (pc \in {"loop", "open", "ops", "progress", "exit", "done"}
                          \/ (pc = "raised" /\ applied # <<>>))

\* C22: when the allow-list is None or empty every manifest partition is
\* selected; when it is non-empty and names no manifest partition, nothing is
\* selected, no output file is created, the progress hook is never called
\* and the run ends normally (it never fails, and goes from the loop to its
\* end).
C22_SelectionDefaults ==
    /\ [](Selected =>
            /\ (images.none \/ images.names = <<>>) => parts_to_dump = partitions
            /\ (AllowListGiven /\ AllowedInManifest = {}) =>
                  /\ parts_to_dump = <<>>
                  /\ created = <<>> /\ \A n \in Names : disk[n] = <<>>
                  /\ progress = <<>>
                  /\ err = "" /\ pc \in {"loop", "exit", "done"})
    /\ [][(Selected /\ AllowListGiven /\ AllowedInManifest = {}) =>
            \/ (pc = "loop" /\ pc' = "exit")
            \/ (pc = "exit" /\ pc' = "done")
            \/ pc' = pc]_vars

\* A manifest with partitions and an allow-list that names none of them: the
\* run is done with no output file and no progress call.
C22_Witness ==
    /\ pc = "done" /\ err = ""
    /\ AllowListGiven /\ AllowedInManifest = {}
    /\ Len(partitions) >= 2
    /\ hookProgress
    /\ created = <<>> /\ progress = <<>>
====
